---------------------------- MODULE Spec2Model ----------------------------
(***************************************************************************)
(* Model of luma3ds_exception_dump_parser/__main__.py: main() from the     *)
(* point where the dump bytes are in `data` (line 126) to the end of the   *)
(* report (line 219), with hexdump() and makeRegisterLine() as operators.  *)
(*                                                                         *)
(* The dump is a byte sequence; every header word, register and region is  *)
(* decoded from it the way struct.unpack_from and Python slicing do.       *)
(* A 32-bit word is kept as its two 16-bit halves [hi, lo] (value          *)
(* hi * 65536 + lo); Python integers are unbounded, so `hi` may leave      *)
(* 0..65535 after arithmetic (a negative or a 33-bit address).             *)
(* Printed text is kept as real strings, one element of `out` per line.    *)
(***************************************************************************)
EXTENDS Integers, Sequences, FiniteSets, TLC

(***************************************************************************)
(* Bounds of the sampled inputs.                                           *)
(***************************************************************************)
MaxRegisters == 24      \* register counts 0..MaxRegisters are sampled
MaxExceptionType == 4   \* exception type words 0..MaxExceptionType
MaxCoreId == 2          \* core ids 0..MaxCoreId
MaxRows == 2            \* hexdump inputs of up to MaxRows full rows + 1 byte

(***************************************************************************)
(* Numbers.                                                                *)
(***************************************************************************)
Num(h, l) == [hi |-> h, lo |-> l]

\* hi * 65536 + lo with lo brought back into 0..65535 (floor division).
Norm(h, l) == [hi |-> h + (l \div 65536), lo |-> l % 65536]

\* A word whose value fits a model integer (hi < 32768), as that integer.
Val(w) == w.hi * 65536 + w.lo

\* x + k and x - k for an unbounded x and a small integer k.
NumAdd(x, k) == Norm(x.hi, x.lo + k)

\* x & mask for a mask within the low half / the high half of the word.
AndLo(x, bit) == ((x.lo \div bit) % 2) * bit
AndHi(x, bit) == ((x.hi \div bit) % 2) * bit

\* x < k, x = k for an unsigned word x and 0 <= k < 65536.
LtSmall(x, k) == x.hi = 0 /\ x.lo < k
EqSmall(x, k) == x.hi = 0 /\ x.lo = k

\* <<F(1), ..., F(n)>>.
RECURSIVE Tabulate(_, _)
Tabulate(F(_), n) == IF n <= 0 THEN <<>> ELSE Append(Tabulate(F, n - 1), F(n))

Min(a, b) == IF a < b THEN a ELSE b
Max(a, b) == IF a > b THEN a ELSE b

(***************************************************************************)
(* Text formatting: Python's %x / {:x} / {:<n} conversions.                *)
(***************************************************************************)
HexChar == <<"0","1","2","3","4","5","6","7","8","9","a","b","c","d","e","f">>
DecChar == <<"0","1","2","3","4","5","6","7","8","9">>
Blanks == "                                                  "
Zeros == "0000000000000000"

\* hex(n) without the 0x prefix, n >= 0: no leading zeros, "0" for 0.
RECURSIVE HexNat(_)
HexNat(n) == IF n < 16 THEN HexChar[n + 1]
             ELSE HexNat(n \div 16) \o HexChar[(n % 16) + 1]

\* str(n), n >= 0.
RECURSIVE DecNat(_)
DecNat(n) == IF n < 10 THEN DecChar[n + 1]
             ELSE DecNat(n \div 10) \o DecChar[(n % 10) + 1]

\* s right-justified with zeros / left-justified with blanks to width w;
\* a longer s is left as it is.
ZFill(s, w) == IF Len(s) >= w THEN s ELSE SubSeq(Zeros, 1, w - Len(s)) \o s
LJust(s, w) == IF Len(s) >= w THEN s ELSE s \o SubSeq(Blanks, 1, w - Len(s))

\* The digits of a non-negative unbounded number, no leading zeros.
HexMagnitude(x) == IF x.hi = 0 THEN HexNat(x.lo)
                   ELSE HexNat(x.hi) \o ZFill(HexNat(x.lo), 4)

\* -x for x < 0.
Negated(x) == IF x.lo = 0 THEN Num(-x.hi, 0) ELSE Num(-x.hi - 1, 65536 - x.lo)

\* '%08x' % x and '{0:08x}'.format(x): zero-padded to 8 characters, the
\* sign counted in the width, more digits when the number needs them.
Format08x(x) == IF x.hi >= 0 THEN ZFill(HexMagnitude(x), 8)
                ELSE "-" \o ZFill(HexMagnitude(Negated(x)), 7)

\* hex(b) of one byte, padded to two digits (lines 52-54).
Hex2(b) == ZFill(HexNat(b), 2)

\* The characters 0x20..0x5f and 0x61..0x7e in order.
PrintableLow == " !\"#$%&'(" \o ")*+,-./0123456789:;<=>?@ABCDEFGHIJKLMNOPQRSTUVWXYZ[\\]^_"
PrintableHigh == "abcdefghijklmnopqrstuvwxyz{|}~"

\* chr(c) for an ASCII code. A control character and the grave accent
\* (0x60), which a string constant here cannot hold, are written as
\* their \x escape.
Chr(c) == IF 32 <= c /\ c < 96 THEN SubSeq(PrintableLow, c - 31, c - 31)
          ELSE IF 96 < c /\ c < 127 THEN SubSeq(PrintableHigh, c - 96, c - 96)
          ELSE "\\x" \o Hex2(c)

(***************************************************************************)
(* Bytes: struct.unpack_from and slicing.                                  *)
(***************************************************************************)
\* data[a:b] for 0 <= a: clipped to the buffer, never an error.
Slice(buf, a, b) == SubSeq(buf, Min(a, Len(buf)) + 1, Min(b, Len(buf)))

\* buf[-k:]: the last k bytes, or all of a shorter buf.
LastBytes(buf, k) == SubSeq(buf, Max(Len(buf) - k, 0) + 1, Len(buf))

\* unpack_from raises struct.error unless offset + size <= len(buffer).
UnpackFits(buf, size, offset) == offset + size <= Len(buf)

\* One little-endian "<I" word at byte offset `offset` (0-based).
WordAt(buf, offset) == Num(buf[offset + 3] + 256 * buf[offset + 4],
                           buf[offset + 1] + 256 * buf[offset + 2])

\* unpack_from("<{count}I", buf, offset) as a sequence of words.
UnpackWords(buf, count, offset) ==
    Tabulate(LAMBDA k : WordAt(buf, offset + 4 * (k - 1)), count)

\* unpack_from("<H", buf)[0].
HalfAt(buf, offset) == buf[offset + 1] + 256 * buf[offset + 2]

\* The bytes of a word, little-endian (how the dump writer lays it out).
WordBytes(w) == <<w.lo % 256, w.lo \div 256, w.hi % 256, w.hi \div 256>>

RECURSIVE Flatten(_)
Flatten(ss) == IF ss = <<>> THEN <<>> ELSE Head(ss) \o Flatten(Tail(ss))

(***************************************************************************)
(* Module-level tables (lines 71-80).                                      *)
(***************************************************************************)
handledExceptionNames == <<"FIQ", "undefined instruction", "prefetch abort", "data abort">>

registerNames ==
    <<"r0", "r1", "r2", "r3", "r4", "r5", "r6", "r7", "r8", "r9", "r10", "r11", "r12",
      "sp", "lr", "pc", "cpsr", "dfsr", "ifsr", "far", "fpexc", "fpinst", "fpinst2">>

svcBreakReasons == <<"(svcBreak: panic)", "(svcBreak: assertion failed)", "(svcBreak: user-related)">>

\* The dict, keyed by the integer the source writes in binary.
faultStatusSources ==
    (1 :> "Alignment") @@ (4 :> "Instruction cache maintenance operation fault")
    @@ (12 :> "External Abort on translation - First-level")
    @@ (14 :> "External Abort on translation - Second-level")
    @@ (5 :> "Translation - Section") @@ (7 :> "Translation - Page")
    @@ (3 :> "Access bit - Section") @@ (6 :> "Access bit - Page")
    @@ (9 :> "Domain - Section") @@ (11 :> "Domain - Page")
    @@ (13 :> "Permission - Section") @@ (15 :> "Permission - Page")
    @@ (8 :> "Precise External Abort") @@ (22 :> "Imprecise External Abort")
    @@ (2 :> "Debug event")

\* faultStatusSources.get(key, "Unknown").
FaultStatusGet(key) ==
    IF key \in DOMAIN faultStatusSources THEN faultStatusSources[key] ELSE "Unknown"

(***************************************************************************)
(* hexdump(addr, src, length=16, sep='.') (lines 27-66).  A text with      *)
(* newlines is kept as the sequence of its lines; the empty string is the  *)
(* one empty line <<"">>.                                                  *)
(***************************************************************************)
HexdumpLength == 16

\* The inner loop of lines 46-55 from byte h (0-based) on.
RECURSIVE HexaFrom(_, _)
HexaFrom(subSrc, h) ==
    IF h >= Len(subSrc) THEN ""
    ELSE (IF h = HexdumpLength \div 2 THEN " " ELSE "")
         \o Hex2(subSrc[h + 1]) \o " " \o HexaFrom(subSrc, h + 1)

\* hexa.strip(' '): every byte adds one trailing blank and nothing leads.
Hexa(subSrc) ==
    IF subSrc = <<>> THEN ""
    ELSE SubSeq(HexaFrom(subSrc, 0), 1, Len(HexaFrom(subSrc, 0)) - 1)

\* Lines 57-64.
RECURSIVE HexdumpText(_)
HexdumpText(subSrc) ==
    IF subSrc = <<>> THEN ""
    ELSE (IF 32 <= Head(subSrc) /\ Head(subSrc) < 127 THEN Chr(Head(subSrc)) ELSE ".")
         \o HexdumpText(Tail(subSrc))

\* Line 65: '%08x:  %-49s  |%s|' % (addr + i, hexa, text).
HexdumpRow(addr, src, i) ==
    Format08x(NumAdd(addr, i)) \o ":  "
    \o LJust(Hexa(Slice(src, i, i + HexdumpLength)), HexdumpLength * (2 + 1) + 1)
    \o "  |" \o HexdumpText(Slice(src, i, i + HexdumpLength)) \o "|"

\* `result` after the loop of line 43 has run from offset i.
RECURSIVE HexdumpResult(_, _, _)
HexdumpResult(addr, src, i) ==
    IF i >= Len(src) THEN <<>>
    ELSE <<HexdumpRow(addr, src, i)>> \o HexdumpResult(addr, src, i + HexdumpLength)

\* '\n'.join(lines), as the lines of the joined text.
Join(lines) == IF lines = <<>> THEN <<"">> ELSE lines

hexdump(addr, src) == Join(HexdumpResult(addr, src, 0))

\* makeRegisterLine (lines 68-69).
makeRegisterLine(A, rA, B, rB) ==
    LJust(A, 15) \o LJust(Format08x(rA), 20) \o LJust(B, 15) \o LJust(Format08x(rB), 20)

(***************************************************************************)
(* The sampled dump files.  A file is laid out as the parser reads it: ten *)
(* header words, the register words, then the code, stack and additional   *)
(* data regions; the buffer handed to main() is that file cut short, whole *)
(* or followed by stray bytes.                                             *)
(***************************************************************************)
Filler(i) == (i * 37 + 11) % 256

\* Register word k (from 1) of a file: a named one from r, else its index.
RegisterWord(k, r) ==
    CASE k = 1 -> r.r0 [] k = 14 -> r.sp [] k = 16 -> r.pc [] k = 17 -> r.cpsr
      [] k = 18 -> r.dfsr [] k = 19 -> r.ifsr [] k = 20 -> r.far [] k = 21 -> r.fpexc
      [] OTHER -> Num(0, k - 1)

\* A region of `size` bytes that ends with `tail` (or with tail's end).
RegionBytes(size, tail) ==
    IF Len(tail) >= size THEN LastBytes(tail, size)
    ELSE Tabulate(Filler, size - Len(tail)) \o tail

\* Process name "?enu" and a title id, then filler.
AdditionalBytes(size, nameByte) ==
    SubSeq(<<nameByte, 101, 110, 117, 0, 0, 0, 0, 2, 129, 0, 0, 48, 0, 4, 0>>
           \o Tabulate(Filler, size), 1, size)

DumpFile(f) ==
    Flatten(<<WordBytes(f.magic0), WordBytes(f.magic1), WordBytes(f.version),
              WordBytes(f.processor), WordBytes(f.exceptionType), WordBytes(Num(0, 0)),
              WordBytes(Num(0, f.registerByteCount)), WordBytes(Num(0, f.codeDumpSize)),
              WordBytes(Num(0, f.stackDumpSize)), WordBytes(Num(0, f.additionalDataSize))>>)
    \o Flatten(Tabulate(LAMBDA k : WordBytes(RegisterWord(k, f)), f.registerByteCount \div 4))
    \o RegionBytes(f.codeDumpSize, f.codeTail)
    \o Tabulate(LAMBDA i : Filler(i + 5), f.stackDumpSize)
    \o AdditionalBytes(f.additionalDataSize, f.nameByte)

FileLen(f) == 40 + 4 * (f.registerByteCount \div 4) + f.codeDumpSize
              + f.stackDumpSize + f.additionalDataSize

\* The first `len` bytes of a file, zero bytes after its end.
Buffer(file, len) ==
    IF len <= Len(file) THEN SubSeq(file, 1, len)
    ELSE file \o Tabulate(LAMBDA i : 0, len - Len(file))

\* A file cut to each of the lengths `lens`.
Buffers(file, lens) == {Buffer(file, len) : len \in lens}

MagicWord0 == Num(57005, 49374)     \* 0xdeadc0de
MagicWord1 == Num(57005, 51966)     \* 0xdeadcafe

\* A well-formed Arm11 dump of 23 registers and empty regions.
BaseFile ==
    [magic0 |-> MagicWord0, magic1 |-> MagicWord1, version |-> Num(1, 2),
     processor |-> Num(1, 11), exceptionType |-> Num(0, 0),
     registerByteCount |-> 92, codeDumpSize |-> 0, stackDumpSize |-> 0,
     additionalDataSize |-> 0,
     r0 |-> Num(0, 0), sp |-> Num(2047, 65280), pc |-> Num(16, 256), cpsr |-> Num(0, 16),
     dfsr |-> Num(0, 0), ifsr |-> Num(0, 0), far |-> Num(4660, 22136), fpexc |-> Num(0, 0),
     codeTail |-> <<>>, nameByte |-> 109]

Processors == {Num(0, 9), Num(0, 10), Num(1, 11)}
ExceptionTypes == {Num(0, t) : t \in 0..MaxExceptionType}

\* bkpt 0xfff7e, svc 0x3c (Arm), svc 0x3c (Thumb), and no instruction of note.
CodeTails == {<<126, 255, 47, 225>>, <<60, 0, 0, 239>>, <<7, 9, 60, 223>>, <<>>}

\* Header validation: magic, version, declared sizes and buffer length.
DecodeFiles ==
    {[BaseFile EXCEPT !.magic0 = m[1], !.magic1 = m[2], !.version = v,
                      !.processor = Num(0, 9), !.registerByteCount = rb,
                      !.codeDumpSize = c, !.stackDumpSize = st, !.additionalDataSize = a] :
        m \in {<<MagicWord0, MagicWord1>>, <<MagicWord1, MagicWord0>>, <<MagicWord0, Num(57005, 51967)>>},
        v \in {Num(0, 65535), Num(1, 1), Num(1, 2), Num(2, 0)},
        rb \in {0, 4, 6, 92}, c \in {0, 4}, st \in {0, 16}, a \in {0, 16}}

DecodeLens(f) ==
    {0, 4, 7, 8, 39, 40, 40 + 4 * (f.registerByteCount \div 4),
     40 + 4 * (f.registerByteCount \div 4) + f.codeDumpSize,
     FileLen(f), FileLen(f) + 1}
    \cup {l \in {40 + 4 * (f.registerByteCount \div 4) - 1, FileLen(f) - 1} : l >= 0}

DecodeInputs == UNION {Buffers(DumpFile(f), DecodeLens(f)) : f \in DecodeFiles}

\* Exception classification: type, Thumb flag, last instruction, r0, fpexc.
ClassifyInputs ==
    {DumpFile(f) : f \in
        {[BaseFile EXCEPT !.processor = p, !.exceptionType = t, !.registerByteCount = rb,
                          !.cpsr = c, !.codeDumpSize = cs, !.codeTail = ct,
                          !.r0 = r, !.fpexc = fp] :
            p \in Processors, t \in ExceptionTypes, rb \in {84, 92},
            c \in {Num(0, 16), Num(0, 48)}, cs \in {0, 1, 2, 4, 6}, ct \in CodeTails,
            r \in {Num(0, 0), Num(0, 2), Num(0, 3)}, fp \in {Num(0, 0), Num(32768, 0)}}}

\* Fault status: the two status registers and how many registers there are.
FaultInputs ==
    {DumpFile(f) : f \in
        {[BaseFile EXCEPT !.processor = p, !.exceptionType = t, !.registerByteCount = rb,
                          !.dfsr = d, !.ifsr = i] :
            p \in Processors, t \in ExceptionTypes, rb \in {68, 72, 76, 92},
            d \in {Num(0, k) : k \in 0..15} \cup {Num(0, 22), Num(0, 2065)},
            i \in {Num(0, 0), Num(0, 5), Num(0, 10), Num(0, 22), Num(1, 501)}}}

\* Register count, including a byte count that is no multiple of 4.
RegisterInputs ==
    {DumpFile(f) : f \in
        {[BaseFile EXCEPT !.processor = p, !.exceptionType = t,
                          !.registerByteCount = 4 * n + r] :
            p \in {Num(0, 9), Num(1, 11)}, t \in ExceptionTypes,
            n \in 0..MaxRegisters, r \in {0, 3}}}

\* Code and stack addresses and row counts.
RowSizes == {0} \cup UNION {{16 * k - 1, 16 * k, 16 * k + 1} : k \in 1..MaxRows}

AddressInputs ==
    {DumpFile(f) : f \in
        {[BaseFile EXCEPT !.processor = Num(0, 9), !.pc = pc0, !.sp = sp0, !.cpsr = c,
                          !.codeDumpSize = cs, !.stackDumpSize = ss] :
            pc0 \in {Num(0, 0), Num(16, 0), Num(65535, 65532), Num(65535, 65535)},
            sp0 \in {Num(0, 0), Num(4095, 65520), Num(65535, 65520)},
            c \in {Num(0, 16), Num(0, 48)}, cs \in RowSizes, ss \in RowSizes}}

\* Additional data: process name and title id, or the Arm9 memory image.
AdditionalFiles ==
    {[BaseFile EXCEPT !.processor = p, !.additionalDataSize = a, !.nameByte = nb] :
        p \in Processors, a \in {0, 4, 8, 15, 16, 20}, nb \in {109, 0, 255}}

AdditionalInputs ==
    UNION {Buffers(DumpFile(f), {FileLen(f), FileLen(f) - f.additionalDataSize}) :
           f \in AdditionalFiles}

\* Processor line: every processor id with every core id.
ProcessorInputs ==
    {DumpFile([BaseFile EXCEPT !.processor = Num(c, p)]) :
        c \in 0..MaxCoreId, p \in {9, 10, 11}}

\* Three dumps described one by one: an Arm9 dump of a single register with
\* a 4-byte memory image, an Arm11 core 2 dump ending in bkpt, an Arm11
\* data abort on a write.
ScenarioInputs ==
    {DumpFile([BaseFile EXCEPT !.processor = Num(0, 9), !.exceptionType = Num(0, 1),
                               !.registerByteCount = 4, !.additionalDataSize = 4]),
     DumpFile([BaseFile EXCEPT !.processor = Num(2, 11), !.exceptionType = Num(0, 2),
                               !.codeDumpSize = 16, !.codeTail = <<126, 255, 47, 225>>]),
     DumpFile([BaseFile EXCEPT !.exceptionType = Num(0, 3), !.dfsr = Num(0, 2053)])}

Inputs == DecodeInputs \cup ClassifyInputs \cup FaultInputs \cup RegisterInputs
          \cup AddressInputs \cup AdditionalInputs \cup ProcessorInputs
          \cup ScenarioInputs

(***************************************************************************)
(* State: the locals of main(), what has been printed, and where main() is.*)
(***************************************************************************)
VARIABLES
    data,                \* the dump bytes (lines 122-123)
    pc,                  \* the next statement of main(), "done", "raised" or "blocked"
    exc,                 \* the exception that ended main(): type, message, source line
    out,                 \* the lines printed so far
    version, processor, coreId, exceptionType, nbRegisters,
    codeDumpSize, stackDumpSize, additionalDataSize,
    registers, codeOffset, codeDump, stackDump, additionalData,
    typeDetailsStr, thumb, addr, objdump_res,
    sideFile             \* the bytes written to the _arm9mem.bin file

headerVars == <<version, processor, coreId, exceptionType, nbRegisters,
                codeDumpSize, stackDumpSize, additionalDataSize>>
regionVars == <<registers, codeOffset, codeDump, stackDump, additionalData>>
renderVars == <<typeDetailsStr, thumb, addr, objdump_res, sideFile>>
vars == <<data, pc, exc, out, headerVars, regionVars, renderVars>>

NoException == [type |-> "", msg |-> "", line |-> 0]

\* An uncaught exception raised at source line `line` ends main().
Raise(type, msg, line) ==
    /\ pc' = "raised"
    /\ exc' = [type |-> type, msg |-> msg, line |-> line]

StructError(line) == Raise("struct.error", "unpack_from requires a bigger buffer", line)
IndexError(line) == Raise("IndexError", "tuple index out of range", line)

Goto(label) == pc' = label /\ exc' = exc

Init ==
    /\ data \in Inputs
    /\ pc = "magic"
    /\ exc = NoException
    /\ out = <<>>
    /\ version = Num(0, 0) /\ processor = 0 /\ coreId = 0 /\ exceptionType = Num(0, 0)
    /\ nbRegisters = 0 /\ codeDumpSize = 0 /\ stackDumpSize = 0 /\ additionalDataSize = 0
    /\ registers = <<>> /\ codeOffset = 0
    /\ codeDump = <<>> /\ stackDump = <<>> /\ additionalData = <<>>
    /\ typeDetailsStr = "" /\ thumb = FALSE /\ addr = Num(0, 0)
    /\ objdump_res = <<"">> /\ sideFile = <<>>

(***************************************************************************)
(* Decoding (lines 126-143).                                               *)
(***************************************************************************)
\* Lines 126-127.
CheckMagic ==
    /\ pc = "magic"
    /\ IF ~UnpackFits(data, 8, 0) THEN StructError(126)
       ELSE IF UnpackWords(data, 2, 0) # <<MagicWord0, MagicWord1>>
            THEN Raise("SystemExit", "Invalid file format", 127)
            ELSE Goto("header")
    /\ UNCHANGED <<data, out, headerVars, regionVars, renderVars>>

\* Lines 129-132.
ParseHeader ==
    /\ pc = "header"
    /\ IF ~UnpackFits(data, 32, 8)
       THEN StructError(129) /\ UNCHANGED headerVars
       ELSE /\ Goto("version")
            /\ version' = WordAt(data, 8)
            /\ processor' = WordAt(data, 12).lo
            /\ coreId' = WordAt(data, 12).hi
            /\ exceptionType' = WordAt(data, 16)
            /\ nbRegisters' = Val(WordAt(data, 24)) \div 4
            /\ codeDumpSize' = Val(WordAt(data, 28))
            /\ stackDumpSize' = Val(WordAt(data, 32))
            /\ additionalDataSize' = Val(WordAt(data, 36))
    /\ UNCHANGED <<data, out, regionVars, renderVars>>

\* (1 << 16) | 2
MinVersion == Num(1, 2)

\* The comparison with the minor version forgotten.
VersionTooOldMajorOnly(v) == v.hi < MinVersion.hi

\* version < (1 << 16) | 2
VersionTooOld(v) == v.hi < MinVersion.hi \/ (v.hi = MinVersion.hi /\ v.lo < MinVersion.lo)

\* Lines 134-135.
CheckVersion ==
    /\ pc = "version"
    /\ IF VersionTooOld(version)
       THEN Raise("SystemExit", "Incompatible format version, please use the appropriate parser.", 135)
       ELSE Goto("registers")
    /\ UNCHANGED <<data, out, headerVars, regionVars, renderVars>>

\* Line 137.
UnpackRegisters ==
    /\ pc = "registers"
    /\ IF ~UnpackFits(data, 4 * nbRegisters, 40)
       THEN StructError(137) /\ UNCHANGED registers
       ELSE Goto("slices") /\ registers' = UnpackWords(data, nbRegisters, 40)
    /\ UNCHANGED <<data, out, headerVars, codeOffset, codeDump, stackDump,
                   additionalData, renderVars>>

\* Lines 138-143: slices are clipped to the buffer and never raise.
SliceRegions ==
    /\ pc = "slices"
    /\ Goto("processor")
    /\ codeOffset' = 40 + 4 * nbRegisters
    /\ codeDump' = Slice(data, codeOffset', codeOffset' + codeDumpSize)
    /\ stackDump' = Slice(data, codeOffset' + codeDumpSize,
                          codeOffset' + codeDumpSize + stackDumpSize)
    /\ additionalData' = Slice(data, codeOffset' + codeDumpSize + stackDumpSize,
                               codeOffset' + codeDumpSize + stackDumpSize + additionalDataSize)
    /\ UNCHANGED <<data, out, headerVars, registers, renderVars>>

(***************************************************************************)
(* Rendering (lines 145-219).  registers[i] of the source is               *)
(* registers[i + 1] here; reading index i raises IndexError unless         *)
(* i < nbRegisters.                                                        *)
(***************************************************************************)
\* Lines 145-148.
PrintProcessor ==
    /\ pc = "processor"
    /\ Goto("classify")
    /\ out' = Append(out, IF processor = 9 THEN "Processor: Arm9"
                          ELSE "Processor: Arm11 (core " \o DecNat(coreId) \o ")")
    /\ UNCHANGED <<data, headerVars, regionVars, renderVars>>

\* Lines 157 and 161: the suffix chosen by registers[0].
SvcBreakSuffix ==
    " " \o (IF LtSmall(registers[1], 3) THEN svcBreakReasons[registers[1].lo + 1]
            ELSE "(svcBreak)")

\* Line 152: (registers[16] & 0x20) == 0 and codeDumpSize >= 4
ArmInstructionCase == AndLo(registers[17], 32) = 0 /\ codeDumpSize >= 4

\* Line 158: (registers[16] & 0x20) == 1 and codeDumpSize >= 2
ThumbInstructionCase == AndLo(registers[17], 32) = 1 /\ codeDumpSize >= 2

\* The classification as one chain of cases, the VFP test being the last
\* case whatever the exception type is.
TypeDetailsChained ==
    IF EqSmall(exceptionType, 2) /\ nbRegisters <= 16
    THEN [line |-> 152, type |-> "IndexError", str |-> ""]
    ELSE IF EqSmall(exceptionType, 2) /\ ArmInstructionCase
    THEN IF ~UnpackFits(LastBytes(codeDump, 4), 4, 0)
         THEN [line |-> 153, type |-> "struct.error", str |-> ""]
         ELSE IF WordAt(LastBytes(codeDump, 4), 0) = Num(57647, 65406)
              THEN [line |-> 0, type |-> "", str |-> " (kernel panic)"]
         ELSE IF WordAt(LastBytes(codeDump, 4), 0) = Num(61184, 60)
              THEN [line |-> 0, type |-> "", str |-> SvcBreakSuffix]
         ELSE [line |-> 0, type |-> "", str |-> ""]
    ELSE IF EqSmall(exceptionType, 2) /\ ThumbInstructionCase
    THEN IF ~UnpackFits(LastBytes(codeDump, 2), 2, 0)
         THEN [line |-> 159, type |-> "struct.error", str |-> ""]
         ELSE IF HalfAt(LastBytes(codeDump, 2), 0) = 57148
              THEN [line |-> 0, type |-> "", str |-> SvcBreakSuffix]
         ELSE [line |-> 0, type |-> "", str |-> ""]
    ELSE IF processor # 9
         THEN IF nbRegisters <= 20 THEN [line |-> 163, type |-> "IndexError", str |-> ""]
              ELSE IF AndHi(registers[21], 32768) # 0
                   THEN [line |-> 0, type |-> "", str |-> " (VFP exception)"]
              ELSE [line |-> 0, type |-> "", str |-> ""]
    ELSE [line |-> 0, type |-> "", str |-> ""]

\* Lines 150-164: the source line that raises (0 when none does), the
\* exception it raises, and the suffix otherwise.
TypeDetails ==
    IF EqSmall(exceptionType, 2)
    THEN IF nbRegisters <= 16 THEN [line |-> 152, type |-> "IndexError", str |-> ""]
         ELSE IF ArmInstructionCase
         THEN IF ~UnpackFits(LastBytes(codeDump, 4), 4, 0)
              THEN [line |-> 153, type |-> "struct.error", str |-> ""]
              ELSE IF WordAt(LastBytes(codeDump, 4), 0) = Num(57647, 65406)    \* 0xe12fff7e
                   THEN [line |-> 0, type |-> "", str |-> " (kernel panic)"]
              ELSE IF WordAt(LastBytes(codeDump, 4), 0) = Num(61184, 60)       \* 0xef00003c
                   THEN [line |-> 0, type |-> "", str |-> SvcBreakSuffix]
              ELSE [line |-> 0, type |-> "", str |-> ""]
         ELSE IF ThumbInstructionCase
         THEN IF ~UnpackFits(LastBytes(codeDump, 2), 2, 0)
              THEN [line |-> 159, type |-> "struct.error", str |-> ""]
              ELSE IF HalfAt(LastBytes(codeDump, 2), 0) = 57148                \* 0xdf3c
                   THEN [line |-> 0, type |-> "", str |-> SvcBreakSuffix]
              ELSE [line |-> 0, type |-> "", str |-> ""]
         ELSE [line |-> 0, type |-> "", str |-> ""]
    ELSE IF processor # 9
         THEN IF nbRegisters <= 20 THEN [line |-> 163, type |-> "IndexError", str |-> ""]
              ELSE IF AndHi(registers[21], 32768) # 0
                   THEN [line |-> 0, type |-> "", str |-> " (VFP exception)"]
              ELSE [line |-> 0, type |-> "", str |-> ""]
    ELSE [line |-> 0, type |-> "", str |-> ""]

\* Lines 150-164.
ClassifyException ==
    /\ pc = "classify"
    /\ IF TypeDetails.line # 0
       THEN /\ IF TypeDetails.type = "IndexError" THEN IndexError(TypeDetails.line)
               ELSE StructError(TypeDetails.line)
            /\ UNCHANGED typeDetailsStr
       ELSE Goto("exception_type") /\ typeDetailsStr' = TypeDetails.str
    /\ UNCHANGED <<data, out, headerVars, regionVars, thumb, addr, objdump_res, sideFile>>

\* "unknown" if exceptionType >= len(handledExceptionNames) else the name.
ExceptionName ==
    IF ~LtSmall(exceptionType, Len(handledExceptionNames)) THEN "unknown"
    ELSE handledExceptionNames[exceptionType.lo + 1]

\* Line 166.
PrintExceptionType ==
    /\ pc = "exception_type"
    /\ Goto("fault_status")
    /\ out' = Append(out, "Exception type: " \o ExceptionName \o typeDetailsStr)
    /\ UNCHANGED <<data, headerVars, regionVars, renderVars>>

\* Line 169: the index of the register read as xfsr.
XfsrIndex == IF EqSmall(exceptionType, 2) THEN 18 ELSE 17

\* Line 170: the text after "Fault status: ".
FaultStatusText(xfsr) == FaultStatusGet(xfsr.lo % 16)

\* Lines 168-170.
PrintFaultStatus ==
    /\ pc = "fault_status"
    /\ IF processor = 11 /\ ~LtSmall(exceptionType, 2)
       THEN IF nbRegisters <= XfsrIndex
            THEN IndexError(169) /\ UNCHANGED out
            ELSE /\ Goto("additional_data")
                 /\ out' = Append(out, "Fault status: " \o FaultStatusText(registers[XfsrIndex + 1]))
       ELSE Goto("additional_data") /\ UNCHANGED out
    /\ UNCHANGED <<data, headerVars, regionVars, renderVars>>

\* bytes.decode("ascii") of the process name: the characters, when every
\* byte is below 0x80.
RECURSIVE DecodeAscii(_)
DecodeAscii(bytes) ==
    IF bytes = <<>> THEN "" ELSE Chr(Head(bytes)) \o DecodeAscii(Tail(bytes))

\* "{0:016x}" of the "<Q" value at offset 8: its bytes from the last down.
RECURSIVE Hex64(_, _)
Hex64(bytes, k) ==
    IF k = 0 THEN "" ELSE Hex2(bytes[8 + k]) \o Hex64(bytes, k - 1)

\* os.path.splitext(args.filename)[0] + "_arm9mem.bin" for a local dump file.
OutName == "crash_dump_00000000_arm9mem.bin"

\* Lines 172-182.
PrintAdditionalData ==
    /\ pc = "additional_data"
    /\ IF additionalDataSize = 0
       THEN Goto("register_dump") /\ UNCHANGED <<out, sideFile>>
       ELSE IF processor = 11
       THEN IF \E k \in 1..Min(8, Len(additionalData)) : additionalData[k] >= 128
            THEN /\ Raise("UnicodeDecodeError", "'ascii' codec can't decode byte", 174)
                 /\ UNCHANGED <<out, sideFile>>
            ELSE IF ~UnpackFits(additionalData, 8, 8)
            THEN StructError(174) /\ UNCHANGED <<out, sideFile>>
            ELSE /\ Goto("register_dump")
                 /\ out' = Append(out, "Current process: "
                                       \o DecodeAscii(Slice(additionalData, 0, 8))
                                       \o " (" \o Hex64(additionalData, 8) \o ")")
                 /\ UNCHANGED sideFile
       ELSE /\ Goto("register_dump")
            /\ sideFile' = additionalData
            /\ out' = Append(out, "Arm9 RAM dumped to " \o OutName \o ", size "
                                  \o HexNat(additionalDataSize))
    /\ UNCHANGED <<data, headerVars, regionVars, typeDetailsStr, thumb, addr, objdump_res>>

\* range(0, nbRegisters - (nbRegisters % 2), 2), line 185.
RegisterLoopIndices == {i \in 0..(nbRegisters - (nbRegisters % 2) - 1) : i % 2 = 0}

\* Line 188 raises IndexError in the iteration that reads registerNames
\* past its end (registers[i + 1] is always within the count).
RegisterPairRaises(i) == i + 1 >= Len(registerNames)

\* What the loop of lines 185-188 prints from index i on, up to the end of
\* the loop or the iteration that raises.
RECURSIVE RegisterPairLines(_)
RegisterPairLines(i) ==
    IF i \notin RegisterLoopIndices THEN <<>>
    ELSE (IF i = 16 THEN <<"">> ELSE <<>>)
         \o (IF RegisterPairRaises(i) THEN <<>>
             ELSE <<makeRegisterLine(registerNames[i + 1], registers[i + 1],
                                     registerNames[i + 2], registers[i + 2])>>
                  \o RegisterPairLines(i + 2))

\* Line 190.
OddRegisterLine ==
    LJust(registerNames[nbRegisters], 15) \o LJust(Format08x(registers[nbRegisters]), 20)

\* Lines 184-190.
PrintRegisterDump ==
    /\ pc = "register_dump"
    /\ IF \E i \in RegisterLoopIndices : RegisterPairRaises(i)
       THEN /\ IndexError(188)
            /\ out' = out \o <<"", "Register dump:", "">> \o RegisterPairLines(0)
       ELSE IF nbRegisters % 2 = 1 /\ nbRegisters > Len(registerNames)
       THEN /\ IndexError(190)
            /\ out' = out \o <<"", "Register dump:", "">> \o RegisterPairLines(0)
       ELSE /\ Goto("data_abort")
            /\ out' = out \o <<"", "Register dump:", "">> \o RegisterPairLines(0)
                      \o (IF nbRegisters % 2 = 1 THEN <<OddRegisterLine>> ELSE <<>>)
    /\ UNCHANGED <<data, headerVars, regionVars, renderVars>>

\* Lines 192-193.
PrintDataAbort ==
    /\ pc = "data_abort"
    /\ IF processor = 11 /\ EqSmall(exceptionType, 3)
       THEN IF nbRegisters <= 19
            THEN IndexError(193) /\ UNCHANGED out
            ELSE /\ Goto("code_address")
                 /\ out' = Append(out, LJust("FAR", 15) \o LJust(Format08x(registers[20]), 20)
                                       \o "Access type: "
                                       \o (IF AndLo(registers[18], 2048) # 0 THEN "Write" ELSE "Read"))
       ELSE Goto("code_address") /\ UNCHANGED out
    /\ UNCHANGED <<data, headerVars, regionVars, renderVars>>

\* Lines 195-196.
ComputeCodeAddress ==
    /\ pc = "code_address"
    /\ IF nbRegisters <= 16
       THEN IndexError(195) /\ UNCHANGED <<thumb, addr>>
       ELSE /\ Goto("code_dump")
            /\ thumb' = (AndLo(registers[17], 32) # 0)
            /\ addr' = NumAdd(registers[16], (IF thumb' THEN 2 ELSE 4) - codeDumpSize)
    /\ UNCHANGED <<data, out, headerVars, regionVars, typeDetailsStr, objdump_res, sideFile>>

\* Lines 198-200.
PrintCodeDumpHeader ==
    /\ pc = "code_dump"
    /\ Goto("objdump")
    /\ out' = out \o <<"", "Code dump:", "">>
    /\ objdump_res' = <<"">>
    /\ UNCHANGED <<data, headerVars, regionVars, typeDetailsStr, thumb, addr, sideFile>>

(***************************************************************************)
(* The external disassembler (lines 201-214).  What the environment does   *)
(* with the call is a choice among: DEVKITARM not set, no such program, a  *)
(* non-zero exit status, output that is not UTF-8, a program that never    *)
(* returns, and output text.  Output is kept as its lines (split at '\n')  *)
(* with the number of the first line holding '<.data+' (0 when none does). *)
(***************************************************************************)
DisassemblerOutcomes ==
    {[kind |-> "raise", type |-> t, lines |-> <<"">>, marker |-> 0] :
        t \in {"KeyError", "FileNotFoundError", "CalledProcessError", "UnicodeDecodeError"}}
    \cup {[kind |-> "hang", type |-> "", lines |-> <<"">>, marker |-> 0]}
    \cup {[kind |-> "output", type |-> "", lines |-> o[1], marker |-> o[2]] :
            o \in {<< <<"">>, 0 >>,
                   << <<"arm-none-eabi-objdump: unknown architecture", "">>, 0 >>,
                   << <<"00100000 <.data+0x84>:">>, 1 >>,
                   << <<"", "crash_dump_00000000.dmp:     file format binary", "", "",
                        "Disassembly of section .data:", "", "00100000 <.data+0x84>:",
                        "  100000: e12fff7e  bkpt 0xfff7e", "">>, 7 >>}}

\* objdump_res[objdump_res.find('<.data+'):].split('\n')[1:] (line 212):
\* the lines after the marker's; with no marker find() is -1, the slice is
\* the last character, and what is left is [''] for text ending in a
\* newline and [] otherwise.
AfterMarker(lines, marker) ==
    IF marker > 0 THEN SubSeq(lines, marker + 1, Len(lines))
    ELSE IF Len(lines) >= 2 /\ lines[Len(lines)] = "" THEN <<"">>
    ELSE <<>>

\* Lines 201-214: every exception is caught by the bare except; a call that
\* never returns leaves main() blocked in check_output.
RunObjdump ==
    /\ pc = "objdump"
    /\ \E o \in DisassemblerOutcomes :
          IF o.kind = "hang" THEN pc' = "blocked" /\ UNCHANGED objdump_res
          ELSE IF o.kind = "raise" THEN pc' = "print_code" /\ objdump_res' = <<"">>
          ELSE pc' = "print_code" /\ objdump_res' = Join(AfterMarker(o.lines, o.marker))
    /\ UNCHANGED <<data, exc, out, headerVars, regionVars, typeDetailsStr, thumb, addr, sideFile>>

\* Line 216.
PrintCodeDump ==
    /\ pc = "print_code"
    /\ Goto("stack_dump")
    /\ out' = out \o (IF objdump_res # <<"">> THEN objdump_res ELSE hexdump(addr, codeDump))
    /\ UNCHANGED <<data, headerVars, regionVars, renderVars>>

\* Lines 218-219.
PrintStackDump ==
    /\ pc = "stack_dump"
    /\ IF nbRegisters <= 13
       THEN IndexError(219) /\ out' = out \o <<"", "Stack dump:", "">>
       ELSE /\ Goto("done")
            /\ out' = out \o <<"", "Stack dump:", "">> \o hexdump(registers[14], stackDump)
    /\ UNCHANGED <<data, headerVars, regionVars, renderVars>>

Next ==
    \/ CheckMagic
    \/ ParseHeader
    \/ CheckVersion
    \/ UnpackRegisters
    \/ SliceRegions
    \/ PrintProcessor
    \/ ClassifyException
    \/ PrintExceptionType
    \/ PrintFaultStatus
    \/ PrintAdditionalData
    \/ PrintRegisterDump
    \/ PrintDataAbort
    \/ ComputeCodeAddress
    \/ PrintCodeDumpHeader
    \/ RunObjdump
    \/ PrintCodeDump
    \/ PrintStackDump

Spec == Init /\ [][Next]_vars

(***************************************************************************)
(* What the properties below speak of, read off the dump bytes or the      *)
(* printed lines themselves rather than through the parser's operators.    *)
(***************************************************************************)
\* The buffer starts with 0xdeadc0de, 0xdeadcafe, little-endian.
StartsWithMagic ==
    Len(data) >= 8 /\ SubSeq(data, 1, 8) = <<222, 192, 173, 222, 254, 202, 173, 222>>

HeaderPresent == Len(data) >= 40

\* The header word at byte offset `offset`, for a word below 2^31.
DeclaredWord(offset) ==
    data[offset + 1] + 256 * data[offset + 2] + 65536 * data[offset + 3]
    + 16777216 * data[offset + 4]

\* The version word is below 0x00010002.
VersionBelowMinimum ==
    data[12] = 0 /\ (data[11] = 0 \/ (data[11] = 1 /\ data[10] = 0 /\ data[9] < 2))

DeclaredRegisterCount == DeclaredWord(24) \div 4

\* 40 + 4 * registerCount + codeDumpSize + stackDumpSize + additionalDataSize
RequiredLength ==
    40 + 4 * DeclaredRegisterCount + DeclaredWord(28) + DeclaredWord(32) + DeclaredWord(36)

DecodeLabels == {"magic", "header", "version", "registers", "slices"}

IsFormatError == pc = "raised" /\ exc.type = "SystemExit" /\ exc.msg = "Invalid file format"

IsVersionError ==
    /\ pc = "raised" /\ exc.type = "SystemExit"
    /\ exc.msg = "Incompatible format version, please use the appropriate parser."

\* seq ends with the lines `suffix`.
EndsWith(seq, suffix) ==
    /\ Len(seq) >= Len(suffix)
    /\ SubSeq(seq, Len(seq) - Len(suffix) + 1, Len(seq)) = suffix

HexDigits == {HexChar[d] : d \in 1..16}
HexDigitValue(c) == CHOOSE d \in 0..15 : HexChar[d + 1] = c

\* The number written by four hexadecimal digits.
Hex4Value(str) ==
    4096 * HexDigitValue(SubSeq(str, 1, 1)) + 256 * HexDigitValue(SubSeq(str, 2, 2))
    + 16 * HexDigitValue(SubSeq(str, 3, 3)) + HexDigitValue(SubSeq(str, 4, 4))

\* `row` starts with exactly 8 hexadecimal digits that write the number x,
\* and a colon follows them.
AddressFieldIs(row, x) ==
    /\ Len(row) >= 9
    /\ \A k \in 1..8 : SubSeq(row, k, k) \in HexDigits
    /\ SubSeq(row, 9, 9) = ":"
    /\ x = Num(Hex4Value(SubSeq(row, 1, 4)), Hex4Value(SubSeq(row, 5, 8)))

\* The Thumb flag, bit 5 of register 16.
ThumbFlagSet == (registers[17].lo \div 32) % 2 = 1

\* Register 20 bit 31.
VfpFlagSet == registers[21].hi >= 32768

\* The exception type line has been printed, as the second line.
ExceptionLinePrinted == Len(out) >= 2

ExceptionLineIs(suffix) ==
    out[2] = "Exception type: "
             \o (IF exceptionType.hi = 0 /\ exceptionType.lo < 4
                 THEN handledExceptionNames[exceptionType.lo + 1] ELSE "unknown")
             \o suffix

\* The suffix register 0 selects.
ExpectedSvcBreak ==
    IF registers[1].hi = 0 /\ registers[1].lo < 3
    THEN " " \o svcBreakReasons[registers[1].lo + 1] ELSE " (svcBreak)"

(***************************************************************************)
(* C1.  A buffer shorter than 40 + 4 * registerCount + codeDumpSize +      *)
(* stackDumpSize + additionalDataSize (under a good magic and version) is  *)
(* rejected while decoding: main() ends with an error before any line is   *)
(* printed, and never goes on to render regions shorter than declared.     *)
(***************************************************************************)
C1_TruncatedIsRejected ==
    (StartsWithMagic /\ HeaderPresent /\ ~VersionBelowMinimum /\ Len(data) < RequiredLength)
    => /\ out = <<>>
       /\ pc \in DecodeLabels \cup {"raised"}
       /\ pc = "raised" => exc.type = "struct.error"

(***************************************************************************)
(* C2.  A buffer of any length that does not start with the two magic      *)
(* words ends main() with SystemExit("Invalid file format"), nothing       *)
(* printed.                                                                *)
(***************************************************************************)
C2_BadMagicIsFormatError ==
    ~StartsWithMagic => (pc = "magic" \/ IsFormatError) /\ out = <<>>

(***************************************************************************)
(* C3.  A buffer of at least 40 bytes with the magic words and a version   *)
(* below 0x00010002 ends main() with the "Incompatible format version"     *)
(* exit, nothing printed and no region unpacked or sliced, whatever the    *)
(* declared sizes are; no other buffer ends that way.                      *)
(***************************************************************************)
C3_OldVersionIsVersionError ==
    /\ (StartsWithMagic /\ HeaderPresent /\ VersionBelowMinimum
        /\ pc \notin {"magic", "header", "version"})
       => /\ IsVersionError /\ exc.line = 135
          /\ out = <<>>
          /\ registers = <<>> /\ codeDump = <<>> /\ stackDump = <<>> /\ additionalData = <<>>
    /\ IsVersionError => (StartsWithMagic /\ HeaderPresent /\ VersionBelowMinimum)

\* An old version is reported for a header whose declared regions the
\* buffer does not hold.
C3_Witness ==
    /\ IsVersionError /\ VersionBelowMinimum
    /\ DeclaredRegisterCount > 0 /\ Len(data) < RequiredLength

(***************************************************************************)
(* C4.  No section reads a register index beyond the decoded count: none   *)
(* of the lines that index `registers` (152, 163, 169, 193, 195, 219)      *)
(* raises IndexError, for any register count.                              *)
(***************************************************************************)
C4_NoRegisterReadBeyondCount ==
    ~(pc = "raised" /\ exc.type = "IndexError"
      /\ exc.line \in {152, 163, 169, 193, 195, 219})

(***************************************************************************)
(* C5.  When the exception type is 2, the Thumb flag is set and the code   *)
(* dump ends with the 16-bit word 0xdf3c, the exception type line carries  *)
(* the svcBreak suffix selected by register 0.                             *)
(***************************************************************************)
C5_ThumbSvcBreakSuffix ==
    (/\ ExceptionLinePrinted
     /\ exceptionType = Num(0, 2)
     /\ ThumbFlagSet
     /\ Len(codeDump) >= 2
     /\ codeDump[Len(codeDump) - 1] + 256 * codeDump[Len(codeDump)] = 57148)
    => ExceptionLineIs(ExpectedSvcBreak)

(***************************************************************************)
(* C6, as first stated.  With at least 21 registers, "(VFP exception)" is  *)
(* appended whenever the processor is not 9, register 20 bit 31 is set and *)
(* neither instruction-word case applies (also for exception type 2 with   *)
(* a code dump too short for the instruction check), and never for         *)
(* processor 9.                                                            *)
(***************************************************************************)
C6_VfpWheneverNoInstructionCase ==
    (ExceptionLinePrinted /\ nbRegisters >= 21)
    => /\ (/\ processor # 9
           /\ VfpFlagSet
           /\ ~(exceptionType = Num(0, 2) /\ ~ThumbFlagSet /\ codeDumpSize >= 4)
           /\ ~(exceptionType = Num(0, 2) /\ ThumbFlagSet /\ codeDumpSize >= 2))
          => ExceptionLineIs(" (VFP exception)")
       /\ processor = 9 => ~ExceptionLineIs(" (VFP exception)")

(***************************************************************************)
(* C6, amended.  With at least 21 registers, "(VFP exception)" is appended *)
(* exactly when the exception type is not 2, the processor is not 9 and    *)
(* register 20 bit 31 is set; for exception type 2 it is never appended.   *)
(***************************************************************************)
C6_VfpOnlyOutsideType2 ==
    (ExceptionLinePrinted /\ nbRegisters >= 21)
    => (ExceptionLineIs(" (VFP exception)")
        <=> (exceptionType # Num(0, 2) /\ processor # 9 /\ VfpFlagSet))

\* The suffix printed for an Arm11 dump of type 1 with register 20 bit 31 set.
C6_Witness ==
    /\ ExceptionLinePrinted /\ nbRegisters >= 21
    /\ exceptionType = Num(0, 1) /\ processor = 11 /\ VfpFlagSet
    /\ ExceptionLineIs(" (VFP exception)")

\* The register dump lines from index i on: two registers per line, an odd
\* last one alone, a blank line before the line of index 16.
RECURSIVE DescribedRegisterLines(_)
DescribedRegisterLines(i) ==
    IF i >= nbRegisters THEN <<>>
    ELSE (IF i = 16 THEN <<"">> ELSE <<>>)
         \o (IF i + 1 < nbRegisters
             THEN <<makeRegisterLine(registerNames[i + 1], registers[i + 1],
                                     registerNames[i + 2], registers[i + 2])>>
             ELSE <<LJust(registerNames[i + 1], 15) \o LJust(Format08x(registers[i + 1]), 20)>>)
         \o DescribedRegisterLines(i + 2)

(***************************************************************************)
(* C7.  For every register count n the register dump prints indices        *)
(* 0..n-1 once each in ascending order, two per line and an odd last one   *)
(* alone, each under its name, with one blank line right before the line   *)
(* that holds index 16 (also when index 16 is the odd last register).      *)
(***************************************************************************)
C7_RegisterDumpLayout ==
    /\ ~(pc = "raised" /\ exc.line \in {188, 190})
    /\ pc = "data_abort"
       => EndsWith(out, <<"", "Register dump:", "">> \o DescribedRegisterLines(0))

(***************************************************************************)
(* C8.  Once the "Code dump" header is printed, whatever the disassembler  *)
(* call does, the report neither aborts nor stalls: a failed call leaves   *)
(* the hex dump of the code bytes at the start address as the section,     *)
(* after everything printed before, and the report goes on to the stack    *)
(* dump.                                                                   *)
(***************************************************************************)
C8_DisassemblyNeverStopsReport ==
    /\ pc \in {"objdump", "print_code", "stack_dump", "blocked"} => ENABLED Next
    /\ ~(pc = "raised" /\ exc.line >= 198 /\ exc.line <= 216)
    /\ (pc = "stack_dump" /\ objdump_res = <<"">>)
       => EndsWith(out, <<"", "Code dump:", "">> \o hexdump(addr, codeDump))

\* The rows of a hex dump section are the last lines of the report, and
\* have the addresses base, base + 16, ...
SectionRowsAre(base, bytes) ==
    LET count == (Len(bytes) + 15) \div 16
        rows == SubSeq(out, Len(out) - count + 1, Len(out))
    IN /\ Len(out) >= count + 3
       /\ out[Len(out) - Max(count, 1)] = ""
       /\ \A i \in 1..count : AddressFieldIs(rows[i], NumAdd(base, 16 * (i - 1)))

(***************************************************************************)
(* C9.  The hex dump of the stack at register 13 and, when it is the code  *)
(* section, of the code at pc - codeDumpSize + (2 if Thumb else 4), has    *)
(* ceil(length / 16) rows, and row i starts with base + 16 * i written as  *)
(* exactly 8 lowercase hexadecimal digits.                                 *)
(***************************************************************************)
C9_HexdumpRowsAndAddresses ==
    /\ pc = "done" => SectionRowsAre(registers[14], stackDump)
    /\ (pc = "stack_dump" /\ objdump_res = <<"">>)
       => SectionRowsAre(NumAdd(registers[16], (IF ThumbFlagSet THEN 2 ELSE 4) - codeDumpSize),
                         codeDump)

\* The declared status register, read off the dump bytes.
StatusRegisterLowBits ==
    data[40 + 4 * (IF exceptionType = Num(0, 2) THEN 18 ELSE 17) + 1] % 16

DescribedFaultStatus ==
    IF \E k \in DOMAIN faultStatusSources : k = StatusRegisterLowBits
    THEN faultStatusSources[StatusRegisterLowBits] ELSE "Unknown"

\* The fault status step is over: the exception type line is out and
\* main() is past line 168.
FaultStatusStepOver == ExceptionLinePrinted /\ pc # "fault_status"

(***************************************************************************)
(* C10.  For processor 11 and an exception type of 2 or more, and for no   *)
(* other dump, the line after the exception type line is "Fault status: "  *)
(* followed by the table entry whose key is the low 4 bits of register 18  *)
(* (type 2) or 17 (other types), "Unknown" when no key is; producing it is *)
(* never an error.                                                         *)
(***************************************************************************)
C10_FaultStatusLine ==
    FaultStatusStepOver
    => /\ (processor = 11 /\ ~(exceptionType.hi = 0 /\ exceptionType.lo < 2))
          => (Len(out) >= 3 /\ out[3] = "Fault status: " \o DescribedFaultStatus)
       /\ ~(processor = 11 /\ ~(exceptionType.hi = 0 /\ exceptionType.lo < 2))
          => \A k \in 1..Len(out) : out[k] \notin {"Fault status: " \o faultStatusSources[c] :
                                                     c \in DOMAIN faultStatusSources}
                                                  \cup {"Fault status: Unknown"}
       /\ \A k \in 1..Len(out) : out[k] # "Fault status: Imprecise External Abort"

=============================================================================
